---- MODULE Spec2Model ----
(***************************************************************************)
(* Model of utils/cam.py: the capture/display frame pump.                  *)
(*                                                                         *)
(* setup() prepares every stream (framebuffers, initial plane buffer,      *)
(* initial capture queue), does the initial modeset and switches the       *)
(* streams on; run() is a select() loop that dispatches readvid (one per   *)
(* stream), readdrm (page-flip completion) and readkey (stdin).            *)
(*                                                                         *)
(* A buffer of a stream is named by its index 0..num_bufs-1: the DRM       *)
(* framebuffer stream['fbs'][i] and the V4L2 buffer cap.buffers[i] share   *)
(* one dmabuf fd, so the fd lookups of readvid (line 355) and              *)
(* handle_pageflip (line 418) map index i to index i.                      *)
(*                                                                         *)
(* The capture device and the display device run beside the program: the   *)
(* actions Fill, FlipDone and KeyPress are their steps.  A callback of the *)
(* loop runs to completion between two such steps.                         *)
(*                                                                         *)
(* The second part models MediaPipe of utils/mediapipe.py: start_stream    *)
(* and stop_stream on the caller's thread, _stream_loop on the streaming   *)
(* thread, with the frame callback of utils/simple_streamer.py.  The two   *)
(* programs do not run together: under Spec the MediaPipe variables keep   *)
(* their initial value, under SpecMP those of cam.py do.                   *)
(*                                                                         *)
(* The third part is the plane layout init_kms of cam.py computes before   *)
(* setup (SpecTile), the fourth MediaPipe.setup_links (SpecLinks).  Each   *)
(* part has its own variables, which the other parts leave alone.          *)
(***************************************************************************)
EXTENDS Integers, Sequences, FiniteSets, TLC

\* ------------------------------------------------------------------ bounds
\* num_bufs of a stream ranges over 1..MaxBufs
MaxBufs == 3
\* the capture devices produce at most MaxFrames frames in all
MaxFrames == 5
\* the caller calls MediaPipe.stop_stream at most MaxStops times
MaxStops == 2
\* init_kms lays out at most MaxTileStreams streams
MaxTileStreams == 4
\* mode.hdisplay and mode.vdisplay range over 1..MaxMode
MaxMode == 4
\* the width and height of a stream's format range over 1..MaxDim
MaxDim == 3
MaxConfLinks == 3

\* The configured streams, ctx.streams, by their index + 1.  Two streams, each
\* displayed or not, give every pairing the dispatch logic distinguishes:
\* a flip that carries one stream, both, or only the other one.
Streams == {1, 2}
NumStreams == Cardinality(Streams)
NoFb == 0 - 1
Bufs(n) == 0..(n - 1)

VARIABLES
    use_display,      \* ctx.use_display
    buf_type,         \* ctx.buf_type: "drm" or "v4l2"
    display,          \* stream['display'], per stream
    num_bufs,         \* stream['num_bufs'], per stream
    pc,               \* where the program is: setup .. select/dispatch .. exited/failed
    idx,              \* index of the stream the current setup loop is at
    events,           \* the keys select() returned that are still to be dispatched
    kms_committed,    \* ctx.kms_committed
    kms_fb,           \* stream['kms_fb'] (NoFb: not set)
    kms_old_fb,       \* stream['kms_old_fb'] (NoFb: None)
    kms_fb_queue,     \* stream['kms_fb_queue']
    total_num_frames, \* stream['total_num_frames']
    cap_queued,       \* capture device: buffers queued and not yet filled, in order
    cap_done,         \* capture device: filled buffers waiting for dequeue, in order
    streaming,        \* capture device: stream_on was called and stream_off was not
    plane_props,      \* display device: FB_ID property written by plane.set_props
    plane_fb,         \* display device: the buffer each plane scans out
    hw_flips,         \* display device: flip commits issued and not yet completed
    card_events,      \* display device: FLIP_COMPLETE events not yet read, each with
                      \* the request whose completion it reports
    modesets,         \* number of commit_sync(allow_modeset=True) calls
    modeset_planes,   \* the streams whose plane the modeset request carried
    flips_issued,     \* number of req.commit(allow_modeset=False) calls
    flips_handled,    \* number of FLIP_COMPLETE events readdrm handled
    fb_frame,         \* per stream and buffer: the frame number of its last dequeue
    stdin_ready,      \* a line is waiting on stdin
    off_log,          \* the streams stream_off was called on, in call order
    last              \* what the last step was and what it printed / committed

VARIABLES
    mp_num_bufs,      \* MediaPipe.num_bufs
    mp_pc,            \* caller thread: where it is in start_stream / stop_stream
    mp_idx,           \* caller thread: position in the loop over the devices
    mp_started,       \* start_stream was called
    mp_stops,         \* number of stop_stream calls that have returned
    mp_thread,        \* MediaPipe.stream_thread: "none", or where _stream_loop is
    mp_stop_flag,     \* MediaPipe.stop_flag
    mp_streamers,     \* MediaPipe.streamers: the devices, in insertion order
    mp_registered,    \* the devices whose streamer.fd the selector holds
    mp_events,        \* streaming thread: keys select() returned, still to dispatch
    mp_queued,        \* per device: buffers queued and not yet filled
    mp_done,          \* per device: filled buffers waiting for dequeue
    mp_streaming,     \* per device: stream_on was called and stream_off was not
    mp_frames,        \* per device: frames the callback has taken
    mp_off,           \* per device: number of stream_off calls
    mp_unreg,         \* per device: number of selector.unregister calls
    mp_late,          \* number of times select() returned since the stop flag was set
    mp_last           \* the last MediaPipe step: [op, e]

mpvars == <<mp_num_bufs, mp_pc, mp_idx, mp_started, mp_stops, mp_thread, mp_stop_flag,
            mp_streamers, mp_registered, mp_events, mp_queued, mp_done, mp_streaming,
            mp_frames, mp_off, mp_unreg, mp_late, mp_last>>

VARIABLES
    mode,             \* init_kms: the connector's default mode, [hdisplay, vdisplay]
    tile_display,     \* init_kms: per stream, use_display and stream.get('display', True)
    tile_pc,          \* init_kms: "loop" while the per-stream loop runs, then "done"
    tile_i,           \* init_kms: the loop index i of enumerate(streams)
    num_planes,       \* init_kms: num_planes
    display_idx,      \* init_kms: display_idx
    tile_boxes,       \* per stream laid out so far: display and its kms-dst-* box
    tile_stream       \* the stream laid out last, with its kms-buf-* and kms-src-*

tilevars == <<mode, tile_display, tile_pc, tile_i, num_planes, display_idx, tile_boxes,
              tile_stream>>

VARIABLES
    link_immutable,   \* per link of the media device: link.is_immutable
    link_enabled,     \* per link of the media device: the link is enabled
    md_links,         \* MediaConfig.md_links, the configured links in list order
    link_pc,          \* setup_links: "disable", "enable" or "done"
    link_i,           \* setup_links: position in the loop it is in
    link_touched      \* the links setup_links has called disable() or enable() on

linkvars == <<link_immutable, link_enabled, md_links, link_pc, link_i, link_touched>>

cfgvars == <<use_display, buf_type, display, num_bufs>>
ctlvars == <<pc, idx, events>>
kmsvars == <<kms_committed, kms_fb, kms_old_fb, kms_fb_queue>>
capvars == <<cap_queued, cap_done, streaming>>
drmvars == <<plane_props, plane_fb, hw_flips, card_events, modesets, modeset_planes>>
cntvars == <<total_num_frames, flips_issued, flips_handled, fb_frame>>
camvars == <<cfgvars, ctlvars, kmsvars, capvars, drmvars, cntvars, stdin_ready, off_log, last>>
\* what the steps of cam.py's setup and loop leave alone, and what MediaPipe's do
notcam == <<mpvars, tilevars, linkvars>>
notmp == <<camvars, tilevars, linkvars>>
vars == <<camvars, mpvars, tilevars, linkvars>>

\* ------------------------------------------------------------- helpers
Range(q) == {q[i] : i \in 1..Len(q)}

Perms(S) == {q \in [1..Cardinality(S) -> S] : \A i, j \in 1..Cardinality(S) : q[i] = q[j] => i = j}

Mark(op, s, warned, commits) == [op |-> op, s |-> s, warned |-> warned, commits |-> commits]

\* selector keys, in the order run() registers them
KeyStdin == [k |-> "key", s |-> 0]
KeyCard == [k |-> "drm", s |-> 0]
KeyVid(s) == [k |-> "vid", s |-> s]

\* ---------------------------------------------------------------- Init
\* the video devices of the MediaPipe, self.video_devices, in dict order
MPDevs == {1, 2}
NumDevs == Cardinality(MPDevs)

MPMark(op, e) == [op |-> op, e |-> e]

\* MediaPipe.__init__, lines 110-121
InitMP ==
    /\ mp_pc = "idle"
    /\ mp_idx = 1
    /\ mp_started = FALSE
    /\ mp_stops = 0
    /\ mp_late = 0
    /\ mp_thread = "none"
    /\ mp_stop_flag = FALSE
    /\ mp_streamers = <<>>
    /\ mp_registered = {}
    /\ mp_events = <<>>
    /\ mp_queued = [e \in MPDevs |-> <<>>]
    /\ mp_done = [e \in MPDevs |-> <<>>]
    /\ mp_streaming = [e \in MPDevs |-> FALSE]
    /\ mp_frames = [e \in MPDevs |-> 0]
    /\ mp_off = [e \in MPDevs |-> 0]
    /\ mp_unreg = [e \in MPDevs |-> 0]
    /\ mp_last = MPMark("init", 0)

\* cam.py before setup(): Context() and the module's state
InitCamState ==
    /\ pc = "setup"
    /\ idx = 1
    /\ events = <<>>
    /\ kms_committed = FALSE
    /\ kms_fb = [s \in Streams |-> NoFb]
    /\ kms_old_fb = [s \in Streams |-> NoFb]
    /\ kms_fb_queue = [s \in Streams |-> <<>>]
    /\ total_num_frames = [s \in Streams |-> 0]
    /\ cap_queued = [s \in Streams |-> <<>>]
    /\ cap_done = [s \in Streams |-> <<>>]
    /\ streaming = [s \in Streams |-> FALSE]
    /\ plane_props = [s \in Streams |-> NoFb]
    /\ plane_fb = [s \in Streams |-> NoFb]
    /\ hw_flips = <<>>
    /\ card_events = <<>>
    /\ modesets = 0
    /\ modeset_planes = {}
    /\ flips_issued = 0
    /\ flips_handled = 0
    /\ fb_frame = [s \in Streams |-> [b \in Bufs(MaxBufs) |-> 0]]
    /\ stdin_ready = FALSE
    /\ off_log = <<>>
    /\ last = Mark("init", 0, 0, 0)

\* cam.py before setup(): every configuration of two streams
InitCam ==
    /\ use_display \in BOOLEAN
    /\ buf_type \in {"drm", "v4l2"}
    /\ display \in [Streams -> BOOLEAN]
    /\ \A s \in Streams : display[s] => use_display
    /\ num_bufs \in [Streams -> 1..MaxBufs]
    /\ InitCamState

\* the links of the media device, over all entities' pad_links
Links == {1, 2, 3}

\* init_kms has not run: no stream to lay out
TileIdle ==
    /\ mode = [hdisplay |-> 1, vdisplay |-> 1]
    /\ tile_display = <<>>
    /\ tile_pc = "done"
    /\ tile_i = 0
    /\ num_planes = 0
    /\ display_idx = 0
    /\ tile_boxes = <<>>
    /\ tile_stream = [display |-> FALSE, buf_w |-> 0, buf_h |-> 0]

\* setup_links is not called: a media device whose links are all disabled
LinksIdle ==
    /\ link_immutable = [l \in Links |-> FALSE]
    /\ link_enabled = [l \in Links |-> FALSE]
    /\ md_links = <<>>
    /\ link_pc = "done"
    /\ link_i = 1
    /\ link_touched = {}

Init ==
    /\ InitCam
    /\ InitMP
    /\ mp_num_bufs = 1
    /\ TileIdle
    /\ LinksIdle

\* --------------------------------------------------------------- setup
\* mutant: buffer 0 is queued to the capture device as well
FirstBufZero(s) == 0

\* line 283: the display path keeps buffer 0 for the screen
FirstBuf(s) == IF display[s] THEN 1 ELSE 0

\* mutant: the loop stops one buffer short
InitialQueueShort(s) == [i \in 1..(num_bufs[s] - FirstBuf(s) - 1) |-> FirstBuf(s) + i - 1]

\* lines 286-290: buffers first_buf .. num_bufs-1, queued in ascending order
InitialQueue(s) == [i \in 1..(num_bufs[s] - FirstBuf(s)) |-> FirstBuf(s) + i - 1]

\* mutant: the modeset is skipped
AfterStreamsNoModeset == "stream_on"

\* where setup goes after the per-stream loop (line 292)
AfterStreams == IF use_display THEN "modeset" ELSE "stream_on"

\* lines 242-290, one iteration of the first loop of setup()
SetupStream(s) ==
    /\ pc = "setup"
    /\ idx = s
    /\ display[s] => buf_type = "drm"
    /\ kms_old_fb' = [kms_old_fb EXCEPT ![s] = NoFb]
    /\ kms_fb' = [kms_fb EXCEPT ![s] = IF display[s] THEN 0 ELSE NoFb]
    /\ kms_fb_queue' = [kms_fb_queue EXCEPT ![s] = <<>>]
    /\ plane_props' = [plane_props EXCEPT ![s] = IF display[s] THEN 0 ELSE NoFb]
    /\ cap_queued' = [cap_queued EXCEPT ![s] = InitialQueue(s)]
    /\ idx' = IF s < NumStreams THEN s + 1 ELSE 1
    /\ pc' = IF s < NumStreams THEN "setup" ELSE AfterStreams
    /\ last' = Mark("setup", s, 0, 0)
    /\ UNCHANGED <<notcam, cfgvars, events, kms_committed, cap_done, streaming, plane_fb, hw_flips,
                   card_events, modesets, modeset_planes, cntvars, stdin_ready, off_log>>

\* line 254: assert(ctx.buf_type == 'drm') fails for a displayed stream
SetupAssertFail(s) ==
    /\ pc = "setup"
    /\ idx = s
    /\ display[s]
    /\ buf_type # "drm"
    /\ pc' = "failed"
    /\ last' = Mark("assert", s, 0, 0)
    /\ UNCHANGED <<notcam, cfgvars, idx, events, kmsvars, capvars, drmvars, cntvars, stdin_ready, off_log>>

\* lines 277-290: reserve_buffers or a cap.queue raises after k buffers of
\* the stream were queued; the display part of the iteration is done
SetupDeviceFail(s) ==
    /\ pc = "setup"
    /\ idx = s
    /\ display[s] => buf_type = "drm"
    /\ \E k \in 0..Len(InitialQueue(s)) :
          /\ k = 0 \/ k < Len(InitialQueue(s))
          /\ cap_queued' = [cap_queued EXCEPT ![s] = SubSeq(InitialQueue(s), 1, k)]
    /\ kms_old_fb' = [kms_old_fb EXCEPT ![s] = NoFb]
    /\ kms_fb' = [kms_fb EXCEPT ![s] = IF display[s] THEN 0 ELSE NoFb]
    /\ kms_fb_queue' = [kms_fb_queue EXCEPT ![s] = <<>>]
    /\ plane_props' = [plane_props EXCEPT ![s] = IF display[s] THEN 0 ELSE NoFb]
    /\ pc' = "failed"
    /\ last' = Mark("setup_fail", s, 0, 0)
    /\ UNCHANGED <<notcam, cfgvars, idx, events, kms_committed, cap_done, streaming, plane_fb,
                   hw_flips, card_events, modesets, modeset_planes, cntvars, stdin_ready, off_log>>

\* line 303: commit_sync raises, the atomic request is not applied
ModesetFail ==
    /\ pc = "modeset"
    /\ pc' = "failed"
    /\ last' = Mark("modeset_fail", 0, 0, 0)
    /\ UNCHANGED <<notcam, cfgvars, idx, events, kmsvars, capvars, drmvars, cntvars, stdin_ready,
                   off_log>>

\* line 311: stream_on raises; setup() has no handler and the streams
\* switched on before stay on
StreamOnFail(s) ==
    /\ pc = "stream_on"
    /\ idx = s
    /\ pc' = "failed"
    /\ last' = Mark("stream_on_fail", s, 0, 0)
    /\ UNCHANGED <<notcam, cfgvars, idx, events, kmsvars, capvars, drmvars, cntvars, stdin_ready,
                   off_log>>

\* lines 292-303: the initial modeset, one synchronous commit carrying the
\* FB_ID of every stream that has a plane
Modeset ==
    /\ pc = "modeset"
    /\ modesets' = modesets + 1
    /\ modeset_planes' = {s \in Streams : display[s]}
    /\ plane_fb' = [s \in Streams |-> IF display[s] THEN kms_fb[s] ELSE plane_fb[s]]
    /\ pc' = "stream_on"
    /\ idx' = 1
    /\ last' = Mark("modeset", 0, 0, 0)
    /\ UNCHANGED <<notcam, cfgvars, events, kmsvars, capvars, plane_props, hw_flips, card_events,
                   cntvars, stdin_ready, off_log>>

\* lines 309-311, one iteration
StreamOn(s) ==
    /\ pc = "stream_on"
    /\ idx = s
    /\ streaming' = [streaming EXCEPT ![s] = TRUE]
    /\ idx' = IF s < NumStreams THEN s + 1 ELSE 1
    /\ pc' = IF s < NumStreams THEN "stream_on" ELSE "finish"
    /\ last' = Mark("stream_on", s, 0, 0)
    /\ UNCHANGED <<notcam, cfgvars, events, kmsvars, cap_queued, cap_done, drmvars, cntvars,
                   stdin_ready, off_log>>

\* lines 313-323, and run() up to its first select()
FinishSetup ==
    /\ pc = "finish"
    /\ total_num_frames' = [s \in Streams |-> 0]
    /\ kms_committed' = FALSE
    /\ pc' = "select"
    /\ last' = Mark("finish", 0, 0, 0)
    /\ UNCHANGED <<notcam, cfgvars, idx, events, kms_fb, kms_old_fb, kms_fb_queue, capvars, drmvars,
                   flips_issued, flips_handled, fb_frame, stdin_ready, off_log>>

\* --------------------------------------------------------- the devices
RECURSIVE FramesMade(_)
\* frames the capture devices of streams 1..n have produced so far
FramesMade(n) ==
    IF n = 0 THEN 0 ELSE total_num_frames[n] + Len(cap_done[n]) + FramesMade(n - 1)

\* The capture device fills the oldest queued buffer of a stream that is on.
Fill(s) ==
    /\ streaming[s]
    /\ cap_queued[s] # <<>>
    /\ FramesMade(NumStreams) < MaxFrames
    /\ cap_done' = [cap_done EXCEPT ![s] = Append(@, Head(cap_queued[s]))]
    /\ cap_queued' = [cap_queued EXCEPT ![s] = Tail(@)]
    /\ last' = Mark("env", 0, 0, 0)
    /\ UNCHANGED <<notcam, cfgvars, ctlvars, kmsvars, streaming, drmvars, cntvars, stdin_ready, off_log>>

\* The display device completes the oldest flip commit: the planes it names
\* switch to their new buffer and a FLIP_COMPLETE event becomes readable.
FlipDone ==
    /\ hw_flips # <<>>
    /\ plane_fb' = [s \in Streams |-> IF Head(hw_flips)[s] # NoFb THEN Head(hw_flips)[s]
                                      ELSE plane_fb[s]]
    /\ hw_flips' = Tail(hw_flips)
    /\ card_events' = Append(card_events, Head(hw_flips))
    /\ last' = Mark("env", 0, 0, 0)
    /\ UNCHANGED <<notcam, cfgvars, ctlvars, kmsvars, capvars, plane_props, modesets, modeset_planes,
                   cntvars, stdin_ready, off_log>>

\* The user types a line.
KeyPress ==
    /\ ~stdin_ready
    /\ stdin_ready' = TRUE
    /\ last' = Mark("env", 0, 0, 0)
    /\ UNCHANGED <<notcam, cfgvars, ctlvars, kmsvars, capvars, drmvars, cntvars, off_log>>

\* ------------------------------------------------------ handle_pageflip
\* The state handle_pageflip works on, as a record, so that a caller can run
\* it after its own updates and readdrm can run it once per event.
Cur ==
    [kms_committed |-> kms_committed, kms_fb |-> kms_fb, kms_old_fb |-> kms_old_fb,
     kms_fb_queue |-> kms_fb_queue, cap_queued |-> cap_queued, hw_flips |-> hw_flips,
     flips_issued |-> flips_issued]

\* mutant: the previous buffer is never looked at
PfGivesNever(d, s) == FALSE

\* line 411: the stream has a previous buffer to give back
PfGives(d, s) == display[s] /\ d.kms_old_fb[s] # NoFb

\* line 423: the stream has a pending buffer
PfPops(d, s) == display[s] /\ d.kms_fb_queue[s] # <<>>

\* mutant: deque.pop(), the newest entry
QueuePopLast(q) == [fb |-> q[Len(q)], rest |-> SubSeq(q, 1, Len(q) - 1)]

\* mutant: the pop empties the deque
QueuePopClear(q) == [fb |-> Head(q), rest |-> <<>>]

\* line 428: deque.popleft()
QueuePop(q) == [fb |-> Head(q), rest |-> Tail(q)]

\* mutant: the request takes the first stream with a pending buffer only
PfReqFirst(d) ==
    [s \in Streams |-> IF PfPops(d, s) /\ (\A t \in Streams : t < s => ~PfPops(d, t))
                       THEN QueuePop(d.kms_fb_queue[s]).fb ELSE NoFb]

\* lines 399, 433: the atomic request, FB_ID per plane (NoFb: plane not in it)
PfReq(d) == [s \in Streams |-> IF PfPops(d, s) THEN QueuePop(d.kms_fb_queue[s]).fb ELSE NoFb]

\* lines 401, 435
PfDoCommit(d) == \E s \in Streams : PfPops(d, s)

\* mutant: the previous buffer is never given back
PfRequeueLeak(d, s) == d.cap_queued[s]

\* mutant: the displaced buffer is given back when its replacement is
\* committed, not when that flip has completed
PfRequeueEarly(d, s) ==
    IF PfPops(d, s) THEN Append(d.cap_queued[s], d.kms_fb[s]) ELSE d.cap_queued[s]

\* mutant: the flag is not cleared on entry, only set on a commit
PfCommittedStale(d) == d.kms_committed \/ PfDoCommit(d)

\* mutant: handle_pageflip without line 439
PfCommittedNever(d) == FALSE

\* lines 397, 439: cleared on entry, set when a commit was issued
PfCommitted(d) == PfDoCommit(d)

\* lines 411-421: cap.queue(vbuf) of the previous buffer
PfRequeue(d, s) ==
    IF PfGives(d, s) THEN Append(d.cap_queued[s], d.kms_old_fb[s]) ELSE d.cap_queued[s]

\* mutant: the previous slot is not cleared after the give-back
PfOldFbKeep(d, s) == IF PfPops(d, s) THEN d.kms_fb[s] ELSE d.kms_old_fb[s]

\* mutant: line 426 runs for every displayed stream, pending buffer or not
PfOldFbAlways(d, s) == IF display[s] THEN d.kms_fb[s] ELSE d.kms_old_fb[s]

\* lines 421, 426
PfOldFb(d, s) ==
    IF PfPops(d, s) THEN d.kms_fb[s]
    ELSE IF PfGives(d, s) THEN NoFb
    ELSE d.kms_old_fb[s]

\* lines 394-439
handle_pageflip(d) ==
    [kms_committed |-> PfCommitted(d),
     kms_fb |-> [s \in Streams |-> IF PfPops(d, s) THEN QueuePop(d.kms_fb_queue[s]).fb
                                   ELSE d.kms_fb[s]],
     kms_old_fb |-> [s \in Streams |-> PfOldFb(d, s)],
     kms_fb_queue |-> [s \in Streams |-> IF PfPops(d, s) THEN QueuePop(d.kms_fb_queue[s]).rest
                                         ELSE d.kms_fb_queue[s]],
     cap_queued |-> [s \in Streams |-> PfRequeue(d, s)],
     hw_flips |-> IF PfDoCommit(d) THEN Append(d.hw_flips, PfReq(d)) ELSE d.hw_flips,
     flips_issued |-> IF PfDoCommit(d) THEN d.flips_issued + 1 ELSE d.flips_issued]

RECURSIVE PageflipTimes(_, _)
\* lines 444-446: handle_pageflip once per FLIP_COMPLETE event read
PageflipTimes(d, n) == IF n = 0 THEN d ELSE PageflipTimes(handle_pageflip(d), n - 1)

\* lines 394-438 when req.commit raises: the loop has run, nothing was
\* committed and line 439 is not reached
PfRaised(d) ==
    [handle_pageflip(d) EXCEPT !.kms_committed = FALSE, !.hw_flips = d.hw_flips,
                               !.flips_issued = d.flips_issued]

\* mutant: the loop catches the exception and goes on with the next key
AfterRaiseContinue == IF Tail(events) = <<>> THEN "select" ELSE "dispatch"

\* lines 459-465: no handler around callback(), the exception leaves run()
AfterRaise == "raised"

\* mutant: the loop waits again after one callback
AfterCallbackWait == "select"

\* the callback is over: back to select() when no ready key is left (lines 460-464)
AfterCallback == IF Tail(events) = <<>> THEN "select" ELSE "dispatch"

\* ------------------------------------------------------------- readvid
\* mutant: warn only above the bound
QueueWarnsOver(len, n) == len > n - 1

\* line 364: the queue reached num_bufs - 1
QueueWarns(len, n) == len >= n - 1

\* mutant: readvid flips without looking at the in-flight flag
FlipNowAlways(d) == TRUE

\* mutant: readvid only enqueues
FlipNowNever(d) == FALSE

\* line 370
FlipNow(d) == d.kms_committed = FALSE

\* lines 361-371, on the record: push, warn, flip when none is in flight
Pushed(d, s, fb) == [d EXCEPT !.kms_fb_queue[s] = Append(@, fb)]

ReadVidDisplay(d, s, fb) == IF FlipNow(Pushed(d, s, fb)) THEN handle_pageflip(Pushed(d, s, fb))
                            ELSE Pushed(d, s, fb)

\* mutant: readvid without line 376
ReadVidKeep(d, s, fb) == d

\* line 376: the buffer goes straight back to the capture device
ReadVidRequeue(d, s, fb) == [d EXCEPT !.cap_queued[s] = Append(@, fb)]

ReadVidResult(s) ==
    IF display[s] THEN ReadVidDisplay(Cur, s, Head(cap_done[s]))
    ELSE ReadVidRequeue(Cur, s, Head(cap_done[s]))

ReadVidWarned(s) ==
    IF display[s] /\ QueueWarns(Len(kms_fb_queue[s]) + 1, num_bufs[s]) THEN 1 ELSE 0

\* mutant: lambda: readvid(ctx, stream), which reads the loop variable when
\* it is called, after the loop left it at the last stream
CallbackDataLate(k) == NumStreams

\* line 457: lambda data=stream binds the stream of its own iteration
CallbackData(k) == k

\* lines 462-464: the callback of the key at the head runs readvid on s
Dispatched(s) ==
    /\ events # <<>>
    /\ \E k \in Streams : Head(events) = KeyVid(k) /\ CallbackData(k) = s

\* lines 327-376
readvid(s) ==
    /\ pc = "dispatch"
    /\ Dispatched(s)
    /\ cap_done[s] # <<>>
    /\ total_num_frames' = [total_num_frames EXCEPT ![s] = @ + 1]
    /\ fb_frame' = [fb_frame EXCEPT ![s][Head(cap_done[s])] = total_num_frames[s] + 1]
    /\ cap_done' = [cap_done EXCEPT ![s] = Tail(@)]
    /\ kms_committed' = ReadVidResult(s).kms_committed
    /\ kms_fb' = ReadVidResult(s).kms_fb
    /\ kms_old_fb' = ReadVidResult(s).kms_old_fb
    /\ kms_fb_queue' = ReadVidResult(s).kms_fb_queue
    /\ cap_queued' = ReadVidResult(s).cap_queued
    /\ hw_flips' = ReadVidResult(s).hw_flips
    /\ flips_issued' = ReadVidResult(s).flips_issued
    /\ events' = Tail(events)
    /\ pc' = AfterCallback
    /\ last' = Mark("readvid", s, ReadVidWarned(s), ReadVidResult(s).flips_issued - flips_issued)
    /\ UNCHANGED <<notcam, cfgvars, idx, streaming, plane_props, plane_fb, card_events, modesets,
                   modeset_planes, flips_handled, stdin_ready, off_log>>

\* lines 327-371 when a call raises: cap.dequeue (line 352), or req.commit
\* of the flip the callback issues (line 438)
readvid_raise(s) ==
    /\ pc = "dispatch"
    /\ Dispatched(s)
    /\ total_num_frames' = [total_num_frames EXCEPT ![s] = @ + 1]
    /\ \/ /\ last' = Mark("raise_dequeue", s, 0, 0)
          /\ UNCHANGED <<kmsvars, cap_queued, cap_done, hw_flips, flips_issued, fb_frame>>
       \/ /\ cap_done[s] # <<>>
          /\ display[s]
          /\ FlipNow(Pushed(Cur, s, Head(cap_done[s])))
          /\ fb_frame' = [fb_frame EXCEPT ![s][Head(cap_done[s])] = total_num_frames[s] + 1]
          /\ cap_done' = [cap_done EXCEPT ![s] = Tail(@)]
          /\ kms_committed' = PfRaised(Pushed(Cur, s, Head(cap_done[s]))).kms_committed
          /\ kms_fb' = PfRaised(Pushed(Cur, s, Head(cap_done[s]))).kms_fb
          /\ kms_old_fb' = PfRaised(Pushed(Cur, s, Head(cap_done[s]))).kms_old_fb
          /\ kms_fb_queue' = PfRaised(Pushed(Cur, s, Head(cap_done[s]))).kms_fb_queue
          /\ cap_queued' = PfRaised(Pushed(Cur, s, Head(cap_done[s]))).cap_queued
          /\ last' = Mark("raise_commit", s, ReadVidWarned(s), 0)
          /\ UNCHANGED <<hw_flips, flips_issued>>
    /\ pc' = AfterRaise
    /\ UNCHANGED <<notcam, cfgvars, idx, events, streaming, plane_props, plane_fb, card_events,
                   modesets, modeset_planes, flips_handled, stdin_ready, off_log>>

\* ------------------------------------------------------------- readdrm
ReadDrmResult == PageflipTimes(Cur, Len(card_events))

\* lines 442-446: every event read is a FLIP_COMPLETE
readdrm ==
    /\ pc = "dispatch"
    /\ events # <<>>
    /\ Head(events) = KeyCard
    /\ card_events' = <<>>
    /\ flips_handled' = flips_handled + Len(card_events)
    /\ kms_committed' = ReadDrmResult.kms_committed
    /\ kms_fb' = ReadDrmResult.kms_fb
    /\ kms_old_fb' = ReadDrmResult.kms_old_fb
    /\ kms_fb_queue' = ReadDrmResult.kms_fb_queue
    /\ cap_queued' = ReadDrmResult.cap_queued
    /\ hw_flips' = ReadDrmResult.hw_flips
    /\ flips_issued' = ReadDrmResult.flips_issued
    /\ events' = Tail(events)
    /\ pc' = AfterCallback
    /\ last' = Mark("readdrm", 0, 0, ReadDrmResult.flips_issued - flips_issued)
    /\ UNCHANGED <<notcam, cfgvars, idx, cap_done, streaming, plane_props, plane_fb, modesets,
                   modeset_planes, total_num_frames, fb_frame, stdin_ready, off_log>>

\* lines 442-446 when req.commit of the next flip raises (line 438)
readdrm_raise ==
    /\ pc = "dispatch"
    /\ events # <<>>
    /\ Head(events) = KeyCard
    /\ card_events # <<>>
    /\ PfDoCommit(Cur)
    /\ card_events' = <<>>
    /\ flips_handled' = flips_handled + 1
    /\ kms_committed' = PfRaised(Cur).kms_committed
    /\ kms_fb' = PfRaised(Cur).kms_fb
    /\ kms_old_fb' = PfRaised(Cur).kms_old_fb
    /\ kms_fb_queue' = PfRaised(Cur).kms_fb_queue
    /\ cap_queued' = PfRaised(Cur).cap_queued
    /\ pc' = AfterRaise
    /\ last' = Mark("raise_commit", 0, 0, 0)
    /\ UNCHANGED <<notcam, cfgvars, idx, events, cap_done, streaming, plane_props, plane_fb,
                   hw_flips, modesets, modeset_planes, total_num_frames, flips_issued, fb_frame,
                   stdin_ready, off_log>>

\* ------------------------------------------------------------- readkey
\* mutant: the streams in registration order
OffOrderForward == [i \in 1..NumStreams |-> i]

\* line 382: reversed(streams)
OffOrder == [i \in 1..NumStreams |-> NumStreams + 1 - i]

\* lines 379-391: stream_off on every stream, read the line, exit(0)
readkey ==
    /\ pc = "dispatch"
    /\ events # <<>>
    /\ Head(events) = KeyStdin
    /\ streaming' = [s \in Streams |-> FALSE]
    /\ off_log' = off_log \o OffOrder
    /\ stdin_ready' = FALSE
    /\ events' = Tail(events)
    /\ pc' = "exited"
    /\ last' = Mark("readkey", 0, 0, 0)
    /\ UNCHANGED <<notcam, cfgvars, idx, kmsvars, cap_queued, cap_done, drmvars, cntvars>>

\* ----------------------------------------------------------------- run
\* lines 452-457: the registered keys whose file is readable
Ready ==
    {k \in {KeyStdin} : stdin_ready}
        \cup {k \in {KeyCard} : use_display /\ card_events # <<>>}
        \cup {KeyVid(s) : s \in {x \in Streams : cap_done[x] # <<>>}}

\* line 461: select() returns every ready key, in an order of its own
Select ==
    /\ pc = "select"
    /\ Ready # {}
    /\ events' \in Perms(Ready)
    /\ pc' = "dispatch"
    /\ last' = Mark("select", 0, 0, 0)
    /\ UNCHANGED <<notcam, cfgvars, idx, kmsvars, capvars, drmvars, cntvars, stdin_ready, off_log>>

\* ------------------------------------------------------- specification
Next ==
    \/ \E s \in Streams : SetupStream(s)
    \/ \E s \in Streams : SetupAssertFail(s)
    \/ \E s \in Streams : SetupDeviceFail(s)
    \/ Modeset
    \/ ModesetFail
    \/ \E s \in Streams : StreamOn(s)
    \/ \E s \in Streams : StreamOnFail(s)
    \/ FinishSetup
    \/ Select
    \/ \E s \in Streams : readvid(s)
    \/ \E s \in Streams : readvid_raise(s)
    \/ readdrm
    \/ readdrm_raise
    \/ readkey
    \/ \E s \in Streams : Fill(s)
    \/ FlipDone
    \/ KeyPress

Spec == Init /\ [][Next]_vars

\* The program in an environment that lets it run on: no device call fails
\* and nobody presses a key.
NextLive ==
    \/ \E s \in Streams : SetupStream(s)
    \/ \E s \in Streams : SetupAssertFail(s)
    \/ Modeset
    \/ \E s \in Streams : StreamOn(s)
    \/ FinishSetup
    \/ Select
    \/ \E s \in Streams : readvid(s)
    \/ readdrm
    \/ \E s \in Streams : Fill(s)
    \/ FlipDone

\* an issued flip completes, a device that is on fills a queued buffer while
\* frames remain, select() returns when a source is ready, and the callbacks
\* of the keys it returned run
Fairness ==
    /\ WF_vars(FlipDone)
    /\ \A s \in Streams : WF_vars(Fill(s))
    /\ WF_vars(Select)
    /\ WF_vars(\E s \in Streams : readvid(s))
    /\ WF_vars(readdrm)

SpecLive == Init /\ [][NextLive]_vars /\ Fairness

\* ---------------------------------------- handle_pageflip called directly
\* handle_pageflip is a module-level function that takes no argument but ctx
\* and looks at no flag before it builds and commits its request.  Here it
\* is called between two callbacks while ctx.kms_committed is true and a
\* displayed stream has a pending buffer; the call returns and the run is
\* followed no further.
FlipWhileOutstanding ==
    /\ pc = "select"
    /\ kms_committed
    /\ PfDoCommit(Cur)
    /\ kms_committed' = handle_pageflip(Cur).kms_committed
    /\ kms_fb' = handle_pageflip(Cur).kms_fb
    /\ kms_old_fb' = handle_pageflip(Cur).kms_old_fb
    /\ kms_fb_queue' = handle_pageflip(Cur).kms_fb_queue
    /\ cap_queued' = handle_pageflip(Cur).cap_queued
    /\ hw_flips' = handle_pageflip(Cur).hw_flips
    /\ flips_issued' = handle_pageflip(Cur).flips_issued
    /\ pc' = "returned"
    /\ last' = Mark("flip", 0, 0, handle_pageflip(Cur).flips_issued - flips_issued)
    /\ UNCHANGED <<notcam, cfgvars, idx, events, cap_done, streaming, plane_props, plane_fb,
                   card_events, modesets, modeset_planes, total_num_frames, flips_handled,
                   fb_frame, stdin_ready, off_log>>

NextFlip == Next \/ FlipWhileOutstanding

\* the program, and one direct call of handle_pageflip while a flip is outstanding
SpecFlip == Init /\ [][NextFlip]_vars

\* ============================================================ MediaPipe
\* lines 236-237: every buffer is queued, in ascending order
MPInitialQueue == [i \in 1..mp_num_bufs |-> i - 1]

\* start_stream is called (line 228)
MPStartCall ==
    /\ mp_pc = "idle"
    /\ ~mp_started
    /\ mp_started' = TRUE
    /\ mp_stops' = 0
    /\ mp_pc' = "start"
    /\ mp_idx' = 1
    /\ mp_last' = MPMark("start", 0)
    /\ UNCHANGED <<notmp, mp_late, mp_num_bufs, mp_thread, mp_stop_flag, mp_streamers,
                   mp_registered, mp_events, mp_queued, mp_done, mp_streaming, mp_frames,
                   mp_off, mp_unreg>>

\* lines 229-243, one iteration: reserve and queue the buffers, keep the
\* streamer, register its fd, stream_on
MPStartDev(e) ==
    /\ mp_pc = "start"
    /\ mp_idx = e
    /\ mp_queued' = [mp_queued EXCEPT ![e] = MPInitialQueue]
    /\ mp_streamers' = Append(mp_streamers, e)
    /\ mp_registered' = mp_registered \cup {e}
    /\ mp_streaming' = [mp_streaming EXCEPT ![e] = TRUE]
    /\ mp_idx' = IF e < NumDevs THEN e + 1 ELSE 1
    /\ mp_pc' = IF e < NumDevs THEN "start" ELSE "start_thread"
    /\ mp_last' = MPMark("start_dev", e)
    /\ UNCHANGED <<notmp, mp_late, mp_num_bufs, mp_started, mp_stops, mp_thread, mp_stop_flag,
                   mp_events, mp_done, mp_frames, mp_off, mp_unreg>>

\* lines 245-247: clear the flag, create and start the thread
MPStartThread ==
    /\ mp_pc = "start_thread"
    /\ mp_stop_flag' = FALSE
    /\ mp_thread' = "loop"
    /\ mp_pc' = "idle"
    /\ mp_last' = MPMark("start_thread", 0)
    /\ mp_late' = 0
    /\ UNCHANGED <<notmp, mp_num_bufs, mp_idx, mp_started, mp_stops, mp_streamers,
                   mp_registered, mp_events, mp_queued, mp_done, mp_streaming, mp_frames,
                   mp_off, mp_unreg>>

\* line 250: stop_stream is called and sets the flag
MPStopSet ==
    /\ mp_pc = "idle"
    /\ mp_stops < MaxStops
    /\ mp_stop_flag' = TRUE
    /\ mp_pc' = "join"
    /\ mp_last' = MPMark("stop_set", 0)
    /\ mp_late' = 0
    /\ UNCHANGED <<notmp, mp_num_bufs, mp_idx, mp_started, mp_stops, mp_thread,
                   mp_streamers, mp_registered, mp_events, mp_queued, mp_done, mp_streaming,
                   mp_frames, mp_off, mp_unreg>>

\* mutant: stop_stream without lines 251-252
JoinSkipped == TRUE

\* lines 251-252: join is skipped when there is no thread and returns when
\* the thread has ended
JoinReturns == mp_thread \in {"none", "done"}

\* lines 251-252
MPStopJoin ==
    /\ mp_pc = "join"
    /\ JoinReturns
    /\ mp_pc' = "off"
    /\ mp_idx' = 1
    /\ mp_last' = MPMark("stop_join", 0)
    /\ UNCHANGED <<notmp, mp_late, mp_num_bufs, mp_started, mp_stops, mp_thread, mp_stop_flag,
                   mp_streamers, mp_registered, mp_events, mp_queued, mp_done, mp_streaming,
                   mp_frames, mp_off, mp_unreg>>

\* lines 253-255, one iteration: unregister (KeyError when the fd is not
\* registered), then stream_off
MPStopOff(e) ==
    /\ mp_pc = "off"
    /\ mp_idx <= Len(mp_streamers)
    /\ e = mp_streamers[mp_idx]
    /\ mp_unreg' = [mp_unreg EXCEPT ![e] = @ + 1]
    /\ IF e \in mp_registered
       THEN /\ mp_registered' = mp_registered \ {e}
            /\ mp_streaming' = [mp_streaming EXCEPT ![e] = FALSE]
            /\ mp_off' = [mp_off EXCEPT ![e] = @ + 1]
            /\ mp_idx' = mp_idx + 1
            /\ mp_pc' = "off"
       ELSE /\ mp_pc' = "failed"
            /\ UNCHANGED <<mp_registered, mp_streaming, mp_off, mp_idx>>
    /\ mp_last' = MPMark("stop_off", e)
    /\ UNCHANGED <<notmp, mp_late, mp_num_bufs, mp_started, mp_stops, mp_thread, mp_stop_flag,
                   mp_streamers, mp_events, mp_queued, mp_done, mp_frames>>

\* stop_stream without line 256
StreamersKept == mp_streamers

\* line 256: self.streamers.clear()
StreamersAfterStop == <<>>

\* line 256, and stop_stream returns
MPStopClear ==
    /\ mp_pc = "off"
    /\ mp_idx > Len(mp_streamers)
    /\ mp_streamers' = StreamersAfterStop
    /\ mp_stops' = mp_stops + 1
    /\ mp_pc' = "idle"
    /\ mp_idx' = 1
    /\ mp_last' = MPMark("stop_clear", 0)
    /\ UNCHANGED <<notmp, mp_late, mp_num_bufs, mp_started, mp_thread, mp_stop_flag, mp_registered,
                   mp_events, mp_queued, mp_done, mp_streaming, mp_frames, mp_off, mp_unreg>>

\* line 222: the loop condition
MPLoopCheck ==
    /\ mp_thread = "loop"
    /\ mp_thread' = IF mp_stop_flag THEN "done" ELSE "select"
    /\ mp_last' = MPMark("loop", 0)
    /\ UNCHANGED <<notmp, mp_late, mp_num_bufs, mp_pc, mp_idx, mp_started, mp_stops, mp_stop_flag,
                   mp_streamers, mp_registered, mp_events, mp_queued, mp_done, mp_streaming,
                   mp_frames, mp_off, mp_unreg>>

\* the registered devices with a filled buffer
MPReady == {e \in mp_registered : mp_done[e] # <<>>}

\* mutant: select() with a timeout, which returns an empty list when it expires
SelectTimesOut(ready) == TRUE

\* line 223: select() without timeout returns only when a source is ready
SelectReturns(ready) == ready # {}

\* lines 223-224: select() returns; the for loop has nothing to do on an empty list
MPSelect ==
    /\ mp_thread = "select"
    /\ SelectReturns(MPReady)
    /\ mp_events' \in Perms(MPReady)
    /\ mp_thread' = IF MPReady = {} THEN "loop" ELSE "dispatch"
    /\ mp_last' = MPMark("select", 0)
    /\ mp_late' = IF mp_stop_flag THEN mp_late + 1 ELSE mp_late
    /\ UNCHANGED <<notmp, mp_num_bufs, mp_pc, mp_idx, mp_started, mp_stops, mp_stop_flag,
                   mp_streamers, mp_registered, mp_queued, mp_done, mp_streaming, mp_frames,
                   mp_off, mp_unreg>>

\* lines 224-226 with get_frame of simple_streamer.py (lines 19-22): dequeue
\* one buffer and queue it again
MPCallback(e) ==
    /\ mp_thread = "dispatch"
    /\ mp_events # <<>>
    /\ Head(mp_events) = e
    /\ mp_done[e] # <<>>
    /\ mp_done' = [mp_done EXCEPT ![e] = Tail(@)]
    /\ mp_queued' = [mp_queued EXCEPT ![e] = Append(@, Head(mp_done[e]))]
    /\ mp_frames' = [mp_frames EXCEPT ![e] = @ + 1]
    /\ mp_events' = Tail(mp_events)
    /\ mp_thread' = IF Tail(mp_events) = <<>> THEN "loop" ELSE "dispatch"
    /\ mp_last' = MPMark("callback", e)
    /\ UNCHANGED <<notmp, mp_late, mp_num_bufs, mp_pc, mp_idx, mp_started, mp_stops, mp_stop_flag,
                   mp_streamers, mp_registered, mp_streaming, mp_off, mp_unreg>>

RECURSIVE MPFramesMade(_)
\* frames the devices 1..n have produced so far
MPFramesMade(n) == IF n = 0 THEN 0 ELSE mp_frames[n] + Len(mp_done[n]) + MPFramesMade(n - 1)

\* A device that is on fills its oldest queued buffer.
MPFill(e) ==
    /\ mp_streaming[e]
    /\ mp_queued[e] # <<>>
    /\ MPFramesMade(NumDevs) < MaxFrames
    /\ mp_done' = [mp_done EXCEPT ![e] = Append(@, Head(mp_queued[e]))]
    /\ mp_queued' = [mp_queued EXCEPT ![e] = Tail(@)]
    /\ mp_last' = MPMark("env", 0)
    /\ UNCHANGED <<notmp, mp_late, mp_num_bufs, mp_pc, mp_idx, mp_started, mp_stops, mp_thread,
                   mp_stop_flag, mp_streamers, mp_registered, mp_events, mp_streaming,
                   mp_frames, mp_off, mp_unreg>>

NextMP ==
    \/ MPStartCall
    \/ \E e \in MPDevs : MPStartDev(e)
    \/ MPStartThread
    \/ MPStopSet
    \/ MPStopJoin
    \/ \E e \in MPDevs : MPStopOff(e)
    \/ MPStopClear
    \/ MPLoopCheck
    \/ MPSelect
    \/ \E e \in MPDevs : MPCallback(e)
    \/ \E e \in MPDevs : MPFill(e)

\* a MediaPipe of two video devices; cam.py is not running
InitMPOnly ==
    /\ use_display = FALSE
    /\ buf_type = "v4l2"
    /\ display = [s \in Streams |-> FALSE]
    /\ num_bufs = [s \in Streams |-> 1]
    /\ InitCamState
    /\ InitMP
    /\ mp_num_bufs \in 1..MaxBufs
    /\ TileIdle
    /\ LinksIdle

SpecMP == InitMPOnly /\ [][NextMP]_vars

\* ============================================================= init_kms
\* The per-stream loop of init_kms (lines 156-222), one iteration a step.
\* The format of a stream and whether it is an embedded stream on dmabuf
\* buffers are inputs of its iteration.  Of the streams laid out before,
\* only the destination box is kept; nothing later reads the rest.

\* line 185
Divs == <<16, 8, 4, 2, 1>>

RECURSIVE EmbDivFrom(_, _)
\* lines 186-189: the first divisor that leaves an even width, else the last
EmbDivFrom(w, k) ==
    IF k = Len(Divs) \/ (w \div Divs[k]) % 2 = 0 THEN Divs[k] ELSE EmbDivFrom(w, k + 1)

\* lines 166, 187, 193
KmsBufW(w, emb) == IF emb THEN w \div EmbDivFrom(w, 1) ELSE w

\* lines 167, 191, 194
KmsBufH(w, h, emb) == IF emb THEN h * EmbDivFrom(w, 1) ELSE h

\* min() of lines 200-201
Min(a, b) == IF a < b THEN a ELSE b

\* line 152
CountDisplayed(flags) == Cardinality({i \in 1..Len(flags) : flags[i]})

\* line 197
MaxW == mode.hdisplay \div (IF num_planes = 1 THEN 1 ELSE 2)

\* line 198
MaxH == mode.vdisplay \div (IF num_planes <= 2 THEN 1 ELSE 2)

\* mutant: the source region starts at the buffer's corner
SrcOffCorner(buf, src) == 0

\* lines 202-203
SrcOff(buf, src) == (buf - src) \div 2

\* lines 208-211
DstX(w) == IF display_idx % 2 = 0 THEN 0 ELSE mode.hdisplay - w

\* lines 213-216
DstY(h) == IF display_idx \div 2 = 0 THEN 0 ELSE mode.vdisplay - h

\* mutant: every stream takes a grid position, displayed or not
NextDisplayIdxAll(disp) == display_idx + 1

\* line 218, inside "if stream['display']"
NextDisplayIdx(disp) == IF disp THEN display_idx + 1 ELSE display_idx

\* lines 166-194 for a stream that is not displayed
Unplaced(bw, bh) ==
    [display |-> FALSE, buf_w |-> bw, buf_h |-> bh, src_w |-> 0, src_h |-> 0,
     src_x |-> 0, src_y |-> 0, dst_w |-> 0, dst_h |-> 0, dst_x |-> 0, dst_y |-> 0]

\* lines 196-216 for a displayed stream whose buffer is bw x bh
Placed(bw, bh) ==
    [display |-> TRUE, buf_w |-> bw, buf_h |-> bh,
     src_w |-> Min(bw, MaxW), src_h |-> Min(bh, MaxH),
     src_x |-> SrcOff(bw, Min(bw, MaxW)), src_y |-> SrcOff(bh, Min(bh, MaxH)),
     dst_w |-> Min(bw, MaxW), dst_h |-> Min(bh, MaxH),
     dst_x |-> DstX(Min(bw, MaxW)), dst_y |-> DstY(Min(bh, MaxH))]

\* the destination box of a stream record
Box(r) == [display |-> r.display, x |-> r.dst_x, y |-> r.dst_y, w |-> r.dst_w, h |-> r.dst_h]

\* lines 152-154
TileStart ==
    /\ tile_pc = "start"
    /\ num_planes' = CountDisplayed(tile_display)
    /\ display_idx' = 0
    /\ tile_i' = 0
    /\ tile_pc' = IF tile_display = <<>> THEN "done" ELSE "loop"
    /\ UNCHANGED <<camvars, mpvars, linkvars, mode, tile_display, tile_boxes, tile_stream>>

\* lines 156-222, the iteration for streams[tile_i]
TileStream ==
    /\ tile_pc = "loop"
    /\ tile_i < Len(tile_display)
    /\ \E w, h \in 1..MaxDim, emb \in BOOLEAN :
          tile_stream' = IF tile_display[tile_i + 1]
                         THEN Placed(KmsBufW(w, emb), KmsBufH(w, h, emb))
                         ELSE Unplaced(KmsBufW(w, emb), KmsBufH(w, h, emb))
    /\ tile_boxes' = Append(tile_boxes, Box(tile_stream'))
    /\ display_idx' = NextDisplayIdx(tile_display[tile_i + 1])
    /\ tile_i' = tile_i + 1
    /\ tile_pc' = IF tile_i + 1 = Len(tile_display) THEN "done" ELSE "loop"
    /\ UNCHANGED <<camvars, mpvars, linkvars, mode, tile_display, num_planes>>

NextTile == TileStart \/ TileStream

\* the flag sequences of 1..n streams
FlagSeqs(n) == UNION {[1..k -> BOOLEAN] : k \in 1..n}

\* init_kms is entered with a mode and the streams' display flags
InitTile ==
    /\ mode \in [hdisplay : 1..MaxMode, vdisplay : 1..MaxMode]
    /\ tile_display \in FlagSeqs(MaxTileStreams)
    /\ tile_pc = "start"
    /\ tile_i = 0
    /\ num_planes = 0
    /\ display_idx = 0
    /\ tile_boxes = <<>>
    /\ tile_stream = Unplaced(0, 0)

\* cam.py before init_kms has stream state only; MediaPipe is not used
InitTileOnly ==
    /\ use_display = FALSE
    /\ buf_type = "v4l2"
    /\ display = [s \in Streams |-> FALSE]
    /\ num_bufs = [s \in Streams |-> 1]
    /\ InitCamState
    /\ InitMP
    /\ mp_num_bufs = 1
    /\ InitTile
    /\ LinksIdle

SpecTile == InitTileOnly /\ [][NextTile]_vars

\* ========================================================== setup_links
\* The links of the media device are numbered in the order in which the two
\* loops of disable_all_media_links meet them.  link.disable() and
\* link.enable() clear and set the ENABLED flag of the link they are called
\* on; md_links holds links of this same device (MediaPipe.__init__ takes
\* config.media) and may name a link more than once.

\* mutant: no link is treated as immutable
MutableAll(l) == TRUE

\* lines 144 and 150: if not link.is_immutable
Mutable(l) == ~link_immutable[l]

\* the link with its flag set as link.disable() / link.enable() leave it
WithFlag(l, on) == [link_enabled EXCEPT ![l] = on]

\* setup_links is called (line 147) and enters disable_all_media_links
SetupLinksCall ==
    /\ link_pc = "start"
    /\ link_pc' = "disable"
    /\ link_i' = 1
    /\ UNCHANGED <<camvars, mpvars, tilevars, link_immutable, link_enabled, md_links,
                   link_touched>>

\* where setup_links goes after disable_all_media_links returned
AfterDisable == IF md_links = <<>> THEN "done" ELSE "enable"

\* lines 142-145, one link
DisableLink(l) ==
    /\ link_pc = "disable"
    /\ link_i = l
    /\ link_enabled' = IF Mutable(l) THEN WithFlag(l, FALSE) ELSE link_enabled
    /\ link_touched' = IF Mutable(l) THEN link_touched \cup {l} ELSE link_touched
    /\ link_i' = IF l < Cardinality(Links) THEN l + 1 ELSE 1
    /\ link_pc' = IF l < Cardinality(Links) THEN "disable" ELSE AfterDisable
    /\ UNCHANGED <<camvars, mpvars, tilevars, link_immutable, md_links>>

\* lines 149-152, one iteration
EnableLink ==
    /\ link_pc = "enable"
    /\ link_i <= Len(md_links)
    /\ link_enabled' = IF Mutable(md_links[link_i]) THEN WithFlag(md_links[link_i], TRUE)
                       ELSE link_enabled
    /\ link_touched' = IF Mutable(md_links[link_i]) THEN link_touched \cup {md_links[link_i]}
                       ELSE link_touched
    /\ link_i' = IF link_i < Len(md_links) THEN link_i + 1 ELSE 1
    /\ link_pc' = IF link_i < Len(md_links) THEN "enable" ELSE "done"
    /\ UNCHANGED <<camvars, mpvars, tilevars, link_immutable, md_links>>

NextLinks ==
    \/ SetupLinksCall
    \/ \E l \in Links : DisableLink(l)
    \/ EnableLink

\* the configured links: any list of links of the device, repeats allowed
ConfLists == UNION {[1..n -> Links] : n \in 0..MaxConfLinks}

\* the device as setup_links finds it: any links immutable, any enabled
InitLinks ==
    /\ link_immutable \in [Links -> BOOLEAN]
    /\ link_enabled \in [Links -> BOOLEAN]
    /\ md_links \in ConfLists
    /\ link_pc = "start"
    /\ link_i = 1
    /\ link_touched = {}

\* MediaPipe before start_stream; cam.py is not used
InitLinksOnly ==
    /\ use_display = FALSE
    /\ buf_type = "v4l2"
    /\ display = [s \in Streams |-> FALSE]
    /\ num_bufs = [s \in Streams |-> 1]
    /\ InitCamState
    /\ InitMP
    /\ mp_num_bufs = 1
    /\ TileIdle
    /\ InitLinks

SpecLinks == InitLinksOnly /\ [][NextLinks]_vars

\* ================================================================ claims
AfterSetup == pc \in {"select", "dispatch"}

\* buffers of stream s the capture device owns
CapOwned(s) == Range(cap_queued[s]) \cup Range(cap_done[s])

CapCount(s) == Len(cap_queued[s]) + Len(cap_done[s])

\* flip commits the display has not yet reported complete to the program
Outstanding == Len(hw_flips) + Len(card_events)

\* C1: buffer conservation.  After setup, for every stream, the buffers the
\* capture device owns, plus those the pump holds inside a callback (none
\* between callbacks), plus the length of kms_fb_queue, plus one for the
\* current kms_fb of a displayed stream, plus one if kms_old_fb is set, is
\* num_bufs.
C1_Conservation ==
    AfterSetup =>
        \A s \in Streams :
            CapCount(s) + Len(kms_fb_queue[s]) + (IF display[s] THEN 1 ELSE 0)
                + (IF kms_old_fb[s] # NoFb THEN 1 ELSE 0) = num_bufs[s]

\* after a give-back, a displayed stream of three buffers has one on screen,
\* one retiring and one with the capture device, beside a stream that is
\* not displayed and has taken a frame
C1_Witness ==
    /\ pc = "select"
    /\ flips_handled > 0
    /\ \E s, t \in Streams :
        /\ display[s]
        /\ num_bufs[s] = 3
        /\ CapCount(s) = 1
        /\ kms_old_fb[s] # NoFb
        /\ ~display[t]
        /\ total_num_frames[t] > 0

\* C2: at most one flip commit is outstanding.  A commit is issued only when
\* no earlier flip is still with the device or waiting unread, one at a time;
\* a frame of a displayed stream that arrives while a flip is outstanding is
\* only appended to that stream's kms_fb_queue.
C2_OneFlipOutstanding ==
    [][/\ Len(hw_flips') + Len(card_events') <= 1
       /\ flips_issued' # flips_issued =>
            /\ hw_flips = <<>>
            /\ card_events' = <<>>
            /\ flips_issued' = flips_issued + 1
       /\ (last'.op = "readvid" /\ display[last'.s] /\ Outstanding = 1) =>
            /\ flips_issued' = flips_issued
            /\ hw_flips' = hw_flips
            /\ kms_fb' = kms_fb
            /\ kms_fb_queue' = [kms_fb_queue EXCEPT ![last'.s] =
                                    Append(@, Head(cap_done[last'.s]))]]_vars

\* a frame was queued behind a flip that is still with the device
C2_Witness ==
    /\ Len(hw_flips) = 1
    /\ last.op = "readvid"
    /\ display[last.s]
    /\ last.commits = 0
    /\ kms_fb_queue[last.s] # <<>>

\* C3: the flip operation invoked while a flip commit is outstanding is
\* rejected as an assertion failure and issues no second commit to the device.
C3_FlipRejected ==
    last.op = "flip" =>
        /\ pc = "failed"
        /\ last.commits = 0
        /\ Outstanding <= 1

\* C4: exclusive ownership between capture and display.  No buffer the
\* capture device owns is the buffer a plane scans out, the buffer of a flip
\* commit not yet completed, kms_fb, kms_old_fb or an entry of kms_fb_queue.
C4_ExclusiveOwnership ==
    \A s \in Streams : \A b \in CapOwned(s) :
        /\ b # plane_fb[s]
        /\ b # kms_fb[s]
        /\ b # kms_old_fb[s]
        /\ b \notin Range(kms_fb_queue[s])
        /\ \A i \in 1..Len(hw_flips) : hw_flips[i][s] # b

\* buffer 0, first on screen, is back with the capture device after a flip
\* replaced it, while the next flip is with the device
C4_Witness ==
    \E s \in Streams :
        /\ display[s]
        /\ 0 \in CapOwned(s)
        /\ hw_flips # <<>>
        /\ Head(hw_flips)[s] # NoFb

\* C5: the depth of kms_fb_queue of a displayed stream never exceeds
\* num_bufs - 1, also while a flip of other streams only is in flight.
C5_QueueDepth ==
    \A s \in Streams : display[s] => Len(kms_fb_queue[s]) <= num_bufs[s] - 1

\* a queue at its bound behind a flip that carries another stream only
C5_Witness ==
    \E s \in Streams :
        /\ display[s]
        /\ num_bufs[s] >= 3
        /\ Len(kms_fb_queue[s]) = num_bufs[s] - 1
        /\ hw_flips # <<>>
        /\ Head(hw_flips)[s] = NoFb

\* C6: backpressure warning.  A push that brings kms_fb_queue of a displayed
\* stream to num_bufs - 1 prints exactly one warning, a push that leaves it
\* below prints none, and the callback goes on as without the warning: the
\* buffer is queued behind a flip in flight, or is flipped at once when
\* none is, and the loop continues.
C6_Backpressure ==
    [][(last'.op = "readvid" /\ display[last'.s]) =>
        /\ last'.warned =
             (IF Len(kms_fb_queue[last'.s]) + 1 = num_bufs[last'.s] - 1 THEN 1 ELSE 0)
        /\ pc' \in {"select", "dispatch"}
        /\ kms_committed =>
             /\ last'.commits = 0
             /\ kms_fb_queue'[last'.s] =
                  Append(kms_fb_queue[last'.s], Head(cap_done[last'.s]))
        /\ ~kms_committed =>
             /\ last'.commits = 1
             /\ kms_committed'
             /\ Head(cap_done[last'.s]) \in
                  {kms_fb'[last'.s]} \cup Range(kms_fb_queue'[last'.s])]_vars

\* a push that warned and flipped at once, and a push of a stream of three
\* buffers that did not warn
C6_Witness ==
    /\ last.op = "readvid"
    /\ display[last.s]
    /\ last.warned = 1
    /\ last.commits = 1
    /\ \E t \in Streams : display[t] /\ num_bufs[t] = 3 /\ total_num_frames[t] = 1

\* C7: with a displayed stream, the modeset commit is issued once and never
\* again, it carries the plane of every displayed stream and puts buffer 0
\* on each, and it is done before any stream is switched on and before the
\* first flip commit (a setup that aborts earlier issues none).
C7_ModesetOnce ==
    (\E s \in Streams : display[s]) =>
        /\ modesets <= 1
        /\ ((\E s \in Streams : streaming[s]) \/ flips_issued > 0 \/ AfterSetup
                \/ pc \in {"stream_on", "finish", "exited"}) =>
             /\ modesets = 1
             /\ modeset_planes = {s \in Streams : display[s]}
             /\ \A s \in modeset_planes : plane_fb[s] # NoFb
        /\ (modesets = 1 /\ flips_issued = 0) =>
             \A s \in Streams : display[s] => plane_fb[s] = 0

\* two displayed streams, modeset done, a flip issued later
C7_Witness ==
    /\ \A s \in Streams : display[s]
    /\ modesets = 1
    /\ flips_issued > 0

\* C8: at a flip-complete event, every displayed stream that was part of the
\* completed flip gives the buffer that was on screen before that flip
\* (kms_old_fb) back to its own capture queue, once, and the slot no longer
\* holds it; a stream that was not part of the flip gives back nothing.
\* While the flip is with the device, kms_old_fb is the buffer on screen.
C8_GiveBack ==
    [][/\ \A s \in Streams :
            (hw_flips # <<>> /\ Head(hw_flips)[s] # NoFb) => plane_fb[s] = kms_old_fb[s]
       /\ (last'.op = "readdrm" /\ Len(card_events) = 1) =>
            \A s \in Streams :
                IF Head(card_events)[s] # NoFb
                THEN /\ kms_old_fb[s] # NoFb
                     /\ kms_old_fb[s] \notin CapOwned(s)
                     /\ cap_queued'[s] = Append(cap_queued[s], kms_old_fb[s])
                     /\ kms_old_fb'[s] # kms_old_fb[s]
                     /\ kms_fb_queue[s] = <<>> => kms_old_fb'[s] = NoFb
                ELSE /\ kms_old_fb[s] = NoFb
                     /\ cap_queued'[s] = cap_queued[s]]_vars

\* a completion gave buffer 0 of one stream back while another displayed
\* stream, never flipped, kept its buffers
C8_Witness ==
    /\ last.op = "readdrm"
    /\ \E s, t \in Streams :
        /\ s # t
        /\ display[s]
        /\ display[t]
        /\ 0 \in Range(cap_queued[s])
        /\ kms_fb[t] = 0
        /\ kms_old_fb[t] = NoFb

\* C9: flip accounting.  Commits issued minus completions handled is 0 or 1,
\* it is 1 exactly when kms_committed is true, every commit issued is with
\* the device, waiting as an unread event, or handled, and when none is with
\* the device or unread the two counts are equal.
C9_FlipAccounting ==
    /\ flips_issued - flips_handled \in {0, 1}
    /\ (flips_issued - flips_handled = 1) <=> kms_committed
    /\ flips_issued = flips_handled + Outstanding
    /\ Outstanding = 0 => flips_issued = flips_handled

\* quiescent after several flips
C9_Witness ==
    /\ pc = "select"
    /\ Outstanding = 0
    /\ flips_issued >= 3
    /\ flips_handled = flips_issued

\* C10: presentation order.  For a displayed stream, kms_fb_queue holds the
\* most recently dequeued frames, oldest first, kms_fb is the frame dequeued
\* just before the oldest pending one (the most recently popped entry, or
\* buffer 0 before the first pop), and the plane scans out kms_fb or, until
\* the flip completes, its predecessor kms_old_fb: frames reach the screen
\* in dequeue order, none skipped, none shown again.
C10_PresentationOrder ==
    (AfterSetup \/ pc = "exited") =>
        \A s \in Streams : display[s] =>
            /\ \A i \in 1..Len(kms_fb_queue[s]) :
                 fb_frame[s][kms_fb_queue[s][i]]
                    = total_num_frames[s] - Len(kms_fb_queue[s]) + i
            /\ fb_frame[s][kms_fb[s]] = total_num_frames[s] - Len(kms_fb_queue[s])
            /\ kms_old_fb[s] # NoFb =>
                 fb_frame[s][kms_old_fb[s]] = fb_frame[s][kms_fb[s]] - 1
            /\ plane_fb[s] \in {kms_fb[s], kms_old_fb[s]}

\* the third frame is on screen with a later one pending
C10_Witness ==
    \E s \in Streams :
        /\ display[s]
        /\ fb_frame[s][0] = 3
        /\ kms_fb[s] = 0
        /\ kms_fb_queue[s] # <<>>


\* the steps of stop_stream
StopOps == {"stop_set", "stop_join", "stop_off", "stop_clear"}

\* C11: once a stop_stream has completed and no start_stream followed, every
\* step of a further stop_stream raises no error, issues no stream_off and no
\* unregister, and leaves the streamers, the selector, the devices and the
\* stop flag as they were.
C11_StopIdempotent ==
    [][(mp_stops >= 1 /\ mp_last'.op \in StopOps) =>
          /\ mp_pc' # "failed"
          /\ mp_off' = mp_off
          /\ mp_unreg' = mp_unreg
          /\ UNCHANGED <<mp_streamers, mp_registered, mp_streaming, mp_stop_flag, mp_thread,
                         mp_queued, mp_done, mp_events, mp_frames>>]_vars

\* a second stop_stream has completed on a pipe that was started, streamed
\* frames and was stopped
C11_Witness ==
    /\ mp_started
    /\ mp_stops = 2
    /\ mp_pc = "idle"
    /\ mp_thread = "done"
    /\ \A e \in MPDevs : mp_frames[e] > 0 /\ mp_off[e] = 1 /\ mp_unreg[e] = 1

\* C12: a readvid of a non-display stream takes the oldest filled buffer and
\* queues that buffer at the end of the same device's queue, and at every
\* callback boundary the device holds each of the stream's num_bufs buffers
\* exactly once.
C12_RoundTrip ==
    [][\A s \in Streams : ~display[s] =>
          /\ (last'.op = "readvid" /\ last'.s = s) =>
                /\ cap_done[s] # <<>>
                /\ cap_done'[s] = Tail(cap_done[s])
                /\ cap_queued'[s] = Append(cap_queued[s], Head(cap_done[s]))
          /\ AfterSetup' =>
                /\ CapCount(s)' = num_bufs[s]
                /\ CapOwned(s)' = Bufs(num_bufs[s])]_vars

\* buffer 0 of a non-display stream with two buffers has just been taken
\* for the second time, as the stream's third frame
C12_Witness ==
    \E s \in Streams :
        /\ ~display[s]
        /\ num_bufs[s] = 2
        /\ last.op = "readvid" /\ last.s = s
        /\ fb_frame[s][0] = 3
        /\ cap_queued[s] # <<>> /\ cap_queued[s][Len(cap_queued[s])] = 0

\* the steps of the select loop: the wait and the three callbacks
LoopOps == {"select", "readvid", "readdrm", "readkey"}

\* C13: readkey issues stream_off once per stream, in descending stream
\* index, whatever flip is in flight, and ends the program: after it no wait
\* returns and no callback runs, and no further stream_off is issued.
C13_OrderlyShutdown ==
    [][/\ last'.op = "readkey" =>
             /\ Len(off_log') = NumStreams
             /\ Range(off_log') = Streams
             /\ \A i, j \in 1..Len(off_log') : i < j => off_log'[i] > off_log'[j]
             /\ \A s \in Streams : ~streaming'[s]
             /\ pc' = "exited"
       /\ pc = "exited" =>
             /\ pc' = "exited"
             /\ last'.op \notin LoopOps
             /\ off_log' = off_log
             /\ UNCHANGED <<events, kmsvars, cap_queued, streaming, flips_issued, flips_handled,
                            total_num_frames>>]_vars

\* the program has exited on a key press with a flip still in flight and
\* with ready callbacks of the same wait left undispatched
C13_Witness ==
    /\ pc = "exited"
    /\ off_log = <<2, 1>>
    /\ hw_flips # <<>>
    /\ events # <<>>
    /\ last.op = "env"

\* the ways setup() aborts
SetupFailOps == {"assert", "setup_fail", "modeset_fail", "stream_on_fail"}

\* C14: when a step of setup fails (the assertion, buffer reservation, the
\* initial queueing, the modeset, a stream_on), no stream is streaming when
\* setup aborts.
C14_NoPartialActivation ==
    (pc = "failed" /\ last.op \in SetupFailOps) => \A s \in Streams : ~streaming[s]

\* a callback that raised
RaiseOps == {"raise_dequeue", "raise_commit"}

\* C15: a callback that raises ends the select loop.  The step that raises
\* leaves the loop, and from then on no wait returns and no callback runs:
\* the ready keys left from the same wait stay undispatched and nothing of
\* the program's state changes, whichever source failed.
C15_FailurePropagates ==
    [][/\ last'.op \in RaiseOps => pc' = "raised" /\ events' = events
       /\ pc = "raised" =>
             /\ pc' = "raised"
             /\ last'.op \notin (LoopOps \cup RaiseOps)
             /\ UNCHANGED <<events, kmsvars, streaming, off_log, total_num_frames,
                            flips_issued, flips_handled>>
             /\ \A s \in Streams : CapOwned(s)' = CapOwned(s)]_vars

\* a capture callback raised while the keys of the other stream and of the
\* card were still to be dispatched; both sources stay ready, unserved
C15_Witness ==
    /\ pc = "raised"
    /\ Len(events) = 3
    /\ card_events # <<>>
    /\ \A s \in Streams : cap_done[s] # <<>>
    /\ last.op = "env"

\* the key whose callback a step of the loop ran
KeyOf(mark) ==
    IF mark.op = "readvid" THEN KeyVid(mark.s)
    ELSE IF mark.op = "readdrm" THEN KeyCard
    ELSE KeyStdin

\* C16: a wait starts only when every key of the previous wait has been
\* dispatched and returns each ready source once; each callback step is the
\* callback of the first key not yet dispatched, runs as one step from the
\* dispatch position, and removes that key only; the loop waits again when
\* no key is left.
C16_Dispatch ==
    [][/\ last'.op = "select" =>
             /\ pc = "select" /\ events = <<>>
             /\ Range(events') = Ready
             /\ Len(events') = Cardinality(Ready)
             /\ pc' = "dispatch"
       /\ last'.op \in {"readvid", "readdrm", "readkey"} =>
             /\ pc = "dispatch" /\ events # <<>>
             /\ Head(events) = KeyOf(last')
             /\ events' = Tail(events)
             /\ last'.op # "readkey" => (pc' = "select" <=> events' = <<>>)
             /\ last'.op # "readkey" => (pc' = "dispatch" <=> events' # <<>>)
       /\ events' # events => last'.op \in LoopOps]_vars

\* readdrm has run as one callback of a wait that returned several keys; a
\* capture key of the same wait is the one still to be dispatched
C16_Witness ==
    /\ pc = "dispatch"
    /\ Len(events) = 1
    /\ last.op = "readdrm"
    /\ total_num_frames[1] + total_num_frames[2] >= 2
    /\ \E s \in Streams : Head(events) = KeyVid(s)

\* the pending queues as a readvid of stream s leaves them after its push
QueueAfterPush(s) ==
    [t \in Streams |-> IF t = s THEN Append(kms_fb_queue[s], Head(cap_done[s]))
                       ELSE kms_fb_queue[t]]

\* C17: a readvid of a displayed stream that runs while no flip is with the
\* device or unread issues exactly one commit in that step, carrying the
\* oldest pending buffer of every displayed stream whose queue is non-empty
\* after the push and nothing else; while a flip is in flight it issues no
\* commit and only appends the buffer to the stream's queue.
C17_ImmediateFlip ==
    [][\A s \in Streams :
          (last'.op = "readvid" /\ last'.s = s /\ display[s]) =>
             IF Outstanding = 0
             THEN /\ last'.commits = 1
                  /\ flips_issued' = flips_issued + 1
                  /\ Len(hw_flips') = 1
                  /\ \A t \in Streams :
                        hw_flips'[1][t] =
                            IF display[t] /\ QueueAfterPush(s)[t] # <<>>
                            THEN Head(QueueAfterPush(s)[t]) ELSE NoFb
                  /\ hw_flips'[1][s] = Head(QueueAfterPush(s)[s])
             ELSE /\ last'.commits = 0
                  /\ flips_issued' = flips_issued
                  /\ hw_flips' = hw_flips
                  /\ kms_fb_queue' = QueueAfterPush(s)
                  /\ UNCHANGED <<kms_fb, kms_old_fb, cap_queued>>]_vars

\* with two displayed streams and earlier flips completed, a readvid found
\* no flip in flight and committed its buffer at once
C17_Witness ==
    /\ \A s \in Streams : display[s]
    /\ flips_handled >= 1
    /\ last.op = "readvid"
    /\ last.commits = 1
    /\ Len(hw_flips) = 1
    /\ hw_flips[1][last.s] # NoFb

\* the streams that give handle_pageflip an update, for pending queues q
Updating(q) == {s \in Streams : display[s] /\ q[s] # <<>>}

\* the request handle_pageflip is to commit for pending queues q
Batch(q) == [s \in Streams |-> IF s \in Updating(q) THEN Head(q[s]) ELSE NoFb]

\* what one call of handle_pageflip on pending queues q has to do in a step
OneCommit(q) ==
    /\ last'.commits = (IF Updating(q) = {} THEN 0 ELSE 1)
    /\ flips_issued' = flips_issued + last'.commits
    /\ hw_flips' = (IF Updating(q) = {} THEN hw_flips ELSE Append(hw_flips, Batch(q)))

\* C18: a call of handle_pageflip, from readdrm for a completed flip or from
\* a readvid that found none in flight, issues one commit when some displayed
\* stream has a pending buffer and none otherwise; the commit has one entry
\* for each such stream, its oldest pending buffer, and no entry for any
\* other stream.
C18_AtomicBatching ==
    [][/\ last'.op = "readdrm" => Len(card_events) = 1 /\ OneCommit(kms_fb_queue)
       /\ \A s \in Streams :
             (last'.op = "readvid" /\ last'.s = s /\ display[s] /\ ~kms_committed) =>
                 OneCommit(QueueAfterPush(s))
       /\ Len(hw_flips') <= Len(hw_flips) + 1]_vars

\* readdrm has committed one request that carries a buffer of both streams
C18_Witness ==
    /\ last.op = "readdrm"
    /\ last.commits = 1
    /\ Len(hw_flips) = 1
    /\ \A s \in Streams : hw_flips[1][s] # NoFb

\* what a call of handle_pageflip on pending queues q leaves of a displayed
\* stream without a pending buffer
KeepsScreen(q) ==
    \A s \in Streams :
        (display[s] /\ q[s] = <<>>) =>
            /\ kms_fb'[s] = kms_fb[s]
            /\ kms_fb_queue'[s] = <<>>
            /\ kms_old_fb'[s] = NoFb
            /\ last'.commits = 1 => hw_flips'[Len(hw_flips')][s] = NoFb

\* C19: a displayed stream whose queue is empty when handle_pageflip runs
\* keeps its kms_fb, has no entry in the request and has no previous buffer
\* afterwards, whether or not the call commits an update of another stream.
C19_EmptyQueueKeeps ==
    [][/\ last'.op = "readdrm" => KeepsScreen(kms_fb_queue)
       /\ \A u \in Streams :
             (last'.op = "readvid" /\ last'.s = u /\ display[u] /\ ~kms_committed) =>
                 KeepsScreen(QueueAfterPush(u))]_vars

\* readdrm committed an update of one displayed stream while the other
\* displayed stream, which has been on screen with a flipped buffer, had
\* nothing pending
C19_Witness ==
    /\ last.op = "readdrm"
    /\ last.commits = 1
    /\ Len(hw_flips) = 1
    /\ \E s \in Streams :
          /\ display[s]
          /\ hw_flips[1][s] = NoFb
          /\ kms_fb[s] > 0
          /\ kms_old_fb[s] = NoFb
          /\ \E t \in Streams : hw_flips[1][t] # NoFb

\* setup has done its modeset (if any) and no frame has been dequeued yet
BeforeFirstFrame ==
    /\ pc \in {"stream_on", "finish", "select", "dispatch"}
    /\ \A s \in Streams : total_num_frames[s] = 0

\* the buffers stream s has with its capture device, in the order queued
Submitted(s) == cap_done[s] \o cap_queued[s]

\* C20: from the end of setup until the first frame is dequeued, a displayed
\* stream with N buffers has buffer 0 as kms_fb and on its plane, which the
\* modeset carried, an empty kms_fb_queue, no kms_old_fb and buffers 1..N-1
\* with the capture device; a non-display stream has buffers 0..N-1 with it.
C20_InitialOwnership ==
    BeforeFirstFrame =>
        \A s \in Streams :
            IF display[s]
            THEN /\ kms_fb[s] = 0
                 /\ plane_fb[s] = 0
                 /\ s \in modeset_planes
                 /\ kms_fb_queue[s] = <<>>
                 /\ kms_old_fb[s] = NoFb
                 /\ Submitted(s) = [i \in 1..(num_bufs[s] - 1) |-> i]
            ELSE Submitted(s) = [i \in 1..num_bufs[s] |-> i - 1]

\* setup has just finished for a displayed stream with three buffers and a
\* non-display stream with two
C20_Witness ==
    /\ pc = "select"
    /\ last.op = "finish"
    /\ display[1] /\ num_bufs[1] = 3
    /\ ~display[2] /\ num_bufs[2] = 2
    /\ \A s \in Streams : streaming[s]

\* the number of displayed streams before stream i of init_kms
Rank(i) == Cardinality({j \in 1..(i - 1) : tile_display[j]})

\* box a lies inside the mode box
InsideMode(a) ==
    /\ 0 <= a.x /\ a.x + a.w <= mode.hdisplay
    /\ 0 <= a.y /\ a.y + a.h <= mode.vdisplay
    /\ 0 <= a.w /\ 0 <= a.h

\* boxes a and b share no pixel
Disjoint(a, b) ==
    \/ a.x + a.w <= b.x
    \/ b.x + b.w <= a.x
    \/ a.y + a.h <= b.y
    \/ b.y + b.h <= a.y

\* C21: with 1 to 4 displayed streams, the k-th displayed stream in index
\* order (k from 0) is placed in column k mod 2 and row k div 2 of the grid
\* (left or top edge at 0, else right or bottom edge on the mode's edge),
\* streams that are not displayed take no position, every destination box is
\* inside the mode box and no two boxes of displayed streams overlap.
C21_Tiling ==
    CountDisplayed(tile_display) \in 1..4 =>
        \A i \in 1..Len(tile_boxes) :
            /\ tile_boxes[i].display = tile_display[i]
            /\ tile_display[i] =>
                  /\ tile_boxes[i].x = (IF Rank(i) % 2 = 0 THEN 0
                                        ELSE mode.hdisplay - tile_boxes[i].w)
                  /\ tile_boxes[i].y = (IF Rank(i) \div 2 = 0 THEN 0
                                        ELSE mode.vdisplay - tile_boxes[i].h)
                  /\ InsideMode(tile_boxes[i])
                  /\ \A j \in 1..Len(tile_boxes) :
                        (j # i /\ tile_display[j]) => Disjoint(tile_boxes[i], tile_boxes[j])

\* four streams laid out on a 4 x 4 mode, the second one not displayed, the
\* three displayed ones with boxes of two by two pixels
C21_Witness ==
    /\ tile_pc = "done"
    /\ mode = [hdisplay |-> 4, vdisplay |-> 4]
    /\ tile_display = <<TRUE, FALSE, TRUE, TRUE>>
    /\ Len(tile_boxes) = 4
    /\ \A i \in {1, 3, 4} : tile_boxes[i].w = 2 /\ tile_boxes[i].h = 2

\* the grid cell init_kms gives each of n planes: the full mode width for one
\* plane, half of it otherwise; the full height for up to two, half otherwise
CellW(n) == IF n = 1 THEN mode.hdisplay ELSE mode.hdisplay \div 2
CellH(n) == IF n <= 2 THEN mode.vdisplay ELSE mode.vdisplay \div 2

\* off is floor((buf - src) / 2) and the region off .. off + src is in 0 .. buf
Centered(buf, src, off) ==
    /\ 2 * off <= buf - src
    /\ buf - src <= 2 * off + 1
    /\ 0 <= off
    /\ off + src <= buf

\* C22: the source region of a displayed stream is min(buffer, cell) on each
\* axis, centred in the buffer with the offset rounded down, inside the
\* buffer, and the destination region has the source region's size.
C22_SourceCrop ==
    (tile_pc # "start" /\ tile_stream.display) =>
        /\ tile_stream.src_w = Min(tile_stream.buf_w, CellW(CountDisplayed(tile_display)))
        /\ tile_stream.src_h = Min(tile_stream.buf_h, CellH(CountDisplayed(tile_display)))
        /\ Centered(tile_stream.buf_w, tile_stream.src_w, tile_stream.src_x)
        /\ Centered(tile_stream.buf_h, tile_stream.src_h, tile_stream.src_y)
        /\ tile_stream.dst_w = tile_stream.src_w
        /\ tile_stream.dst_h = tile_stream.src_h

\* a 3 x 3 buffer cropped to the 1 x 1 cell of a three-plane layout: the
\* source region is the middle pixel
C22_Witness ==
    /\ tile_stream.display
    /\ num_planes = 3
    /\ tile_stream.buf_w = 3 /\ tile_stream.buf_h = 3
    /\ tile_stream.src_w = 1 /\ tile_stream.src_h = 1
    /\ tile_stream.src_x = 1 /\ tile_stream.src_y = 1

\* C23: _stream_loop looks at the stop flag only in its loop condition.  A
\* thread blocked in select() with no source ready stays there, flag set or
\* not; it ends only from the loop condition with the flag set; select()
\* returns at most once after the flag was set; and stop_stream stays in
\* join() for as long as the thread has not ended.
C23_NoTimeout ==
    [][/\ (mp_thread = "select" /\ MPReady = {}) => mp_thread' = "select"
       /\ (mp_thread' = "done" /\ mp_thread # "done") => (mp_thread = "loop" /\ mp_stop_flag)
       /\ (mp_stop_flag /\ mp_last'.op = "loop") => mp_thread' = "done"
       /\ mp_late' <= 1
       /\ (mp_pc = "join" /\ mp_thread \notin {"none", "done"}) => mp_pc' = "join"]_vars

\* stop_stream waits in join() while the thread is blocked in select(), no
\* source is ready and no device will fill another buffer: no step is left
C23_Witness ==
    /\ mp_pc = "join"
    /\ mp_stop_flag
    /\ mp_thread = "select"
    /\ MPReady = {}
    /\ MPFramesMade(NumDevs) = MaxFrames
    /\ \A e \in MPDevs : mp_frames[e] > 0

\* C24: on a displayed stream the pending queue changes only by an append at
\* its end and by a pop of its head, which becomes kms_fb in the same step;
\* and every buffer in the queue is eventually kms_fb.
C24_NoFrameLoss ==
    /\ [][\A s \in Streams : (display[s] /\ AfterSetup) =>
             \/ kms_fb_queue'[s] = kms_fb_queue[s] /\ kms_fb'[s] = kms_fb[s]
             \/ /\ cap_done[s] # <<>>
                /\ kms_fb_queue'[s] = Append(kms_fb_queue[s], Head(cap_done[s]))
                /\ kms_fb'[s] = kms_fb[s]
             \/ /\ cap_done[s] # <<>>
                /\ kms_fb_queue[s] = <<>> /\ kms_fb_queue'[s] = <<>>
                /\ kms_fb'[s] = Head(cap_done[s])
             \/ /\ kms_fb_queue[s] # <<>>
                /\ kms_fb_queue'[s] = Tail(kms_fb_queue[s])
                /\ kms_fb'[s] = Head(kms_fb_queue[s])]_vars
    /\ \A s \in Streams : \A b \in Bufs(MaxBufs) :
          (display[s] /\ b \in Range(kms_fb_queue[s])) ~> (kms_fb[s] = b)

\* readdrm has put on screen a frame that had waited in the queue while the
\* flip of the frame before it was in flight
C24_Witness ==
    /\ last.op = "readdrm"
    /\ last.commits = 1
    /\ \E s \in Streams :
          /\ display[s]
          /\ hw_flips[1][s] = kms_fb[s]
          /\ fb_frame[s][kms_fb[s]] >= 2
          /\ flips_handled >= 2

\* C25: when a callback has raised and the exception has left the select
\* loop, stream_off has been called on every stream that was streaming.
C25_CleanupOnError ==
    pc = "raised" => \A s \in Streams : s \in Range(off_log) /\ ~streaming[s]

\* C26: between callbacks of the select loop, kms_committed false means that
\* every displayed stream has an empty pending queue and no previous buffer,
\* and kms_committed true means that some displayed stream has a previous
\* buffer; so no frame is pending without a flip outstanding.
C26_IdleCompositor ==
    AfterSetup =>
        /\ ~kms_committed =>
              \A s \in Streams : display[s] => kms_fb_queue[s] = <<>> /\ kms_old_fb[s] = NoFb
        /\ kms_committed => \E s \in Streams : display[s] /\ kms_old_fb[s] # NoFb
        /\ (\E s \in Streams : display[s] /\ kms_fb_queue[s] # <<>>) => Outstanding = 1

\* the display is idle again after two flips of two displayed streams
C26_Witness ==
    /\ pc = "select"
    /\ \A s \in Streams : display[s] /\ kms_fb[s] > 0
    /\ flips_handled >= 2
    /\ ~kms_committed
    /\ last.op = "readdrm"

\* the capture devices have produced the last frame of the run
Exhausted == FramesMade(NumStreams) = MaxFrames

\* a displayed stream with at least two buffers, in the select loop
Pumping(s) == AfterSetup /\ display[s] /\ num_bufs[s] >= 2

\* C27: for a displayed stream with two or more buffers, an empty capture
\* queue becomes non-empty again, a filled buffer is ready again and again
\* for as long as the devices produce frames, and a buffer that is not with
\* the capture device comes back to it unless no later frame replaces it.
C27_NoStarvation ==
    \A s \in Streams :
        /\ (Pumping(s) /\ cap_queued[s] = <<>>) ~> (cap_queued[s] # <<>>)
        /\ Pumping(s) ~> (cap_done[s] # <<>> \/ Exhausted)
        /\ \A b \in Bufs(MaxBufs) :
              (Pumping(s) /\ b \in Bufs(num_bufs[s]) /\ b \notin CapOwned(s))
                  ~> (b \in CapOwned(s) \/ Exhausted)

\* a displayed stream with two buffers has shown three frames and readdrm
\* has just given the buffer of the second one back to the capture device
C27_Witness ==
    \E s \in Streams :
        /\ Pumping(s)
        /\ num_bufs[s] = 2
        /\ total_num_frames[s] >= 3
        /\ last.op = "readdrm"
        /\ cap_queued[s] # <<>>
        /\ fb_frame[s][kms_fb[s]] = 3

\* C28: stop_stream unregisters and switches off a streamer only when the
\* streaming thread does not exist or has ended, and a frame callback runs
\* on a streamer only while it is registered and streaming, before any
\* unregister or stream_off of it and not while stop_stream is in its loop.
C28_StopAfterJoin ==
    [][/\ mp_last'.op = "stop_off" => mp_thread \in {"none", "done"}
       /\ mp_last'.op = "callback" =>
             /\ mp_pc # "off"
             /\ mp_last'.e \in mp_registered
             /\ mp_streaming[mp_last'.e]
             /\ mp_off[mp_last'.e] = 0
             /\ mp_unreg[mp_last'.e] = 0
       /\ mp_thread \in {"select", "dispatch", "loop"} =>
             /\ mp_off' = mp_off
             /\ mp_unreg' = mp_unreg]_vars

\* stop_stream switches a streamer off after it waited in join() while the
\* thread dispatched one more batch of frame callbacks and ended
C28_Witness ==
    /\ mp_last.op = "stop_off"
    /\ mp_thread = "done"
    /\ mp_late = 1
    /\ \E e \in MPDevs : mp_off[e] = 1 /\ mp_frames[e] >= 2

\* C29: when the key at the head of the dispatched events is the capture fd
\* of stream k, the callback that runs is readvid on stream k itself: it
\* takes exactly one buffer off stream k's device, counts one frame for
\* stream k, and leaves every other stream's done-buffers alone; when
\* stream k is not displayed it gives that buffer back to stream k's device
\* and queues nothing to any other stream's device.
C29_OwnStream ==
    [][\A k \in Streams :
         (pc = "dispatch" /\ events # <<>> /\ Head(events) = KeyVid(k)) =>
            /\ last'.op \in {"readvid", "raise_dequeue", "raise_commit"} => last'.s = k
            /\ last'.op = "readvid" =>
                  /\ cap_done[k] # <<>>
                  /\ cap_done'[k] = Tail(cap_done[k])
                  /\ total_num_frames'[k] = total_num_frames[k] + 1
                  /\ \A o \in Streams \ {k} :
                        /\ cap_done'[o] = cap_done[o]
                        /\ total_num_frames'[o] = total_num_frames[o]
                  /\ ~display[k] =>
                        /\ cap_queued'[k] = Append(cap_queued[k], Head(cap_done[k]))
                        /\ \A o \in Streams \ {k} : cap_queued'[o] = cap_queued[o]]_vars

\* readvid has just run for the first stream, which is not displayed, on a
\* key select() returned ahead of the last stream's key, and the last
\* stream's filled buffer is still waiting
C29_Witness ==
    /\ last.op = "readvid"
    /\ last.s = 1
    /\ ~display[1]
    /\ events = <<KeyVid(NumStreams)>>
    /\ cap_done[NumStreams] # <<>>
    /\ NumStreams > 1
    /\ total_num_frames[1] = 1
    /\ total_num_frames[NumStreams] = 0

\* the links the configuration lists
Configured == Range(md_links)

\* C30: once setup_links has returned, a link that is not immutable is
\* enabled exactly when the configuration lists it; and no step of
\* setup_links changes the state of an immutable link or calls disable()
\* or enable() on one.
C30_SetupLinks ==
    /\ [](link_pc = "done" =>
            \A l \in Links : ~link_immutable[l] => (link_enabled[l] <=> l \in Configured))
    /\ [][\A l \in Links : link_immutable[l] =>
            /\ link_enabled'[l] = link_enabled[l]
            /\ l \notin link_touched']_vars

\* setup_links has returned on a device where it switched off an enabled
\* link the configuration does not list, switched on a listed one, and
\* passed over an immutable link of each state, one of them listed
C30_Witness ==
    /\ link_pc = "done"
    /\ link_touched # {}
    /\ \E a, b, c \in Links :
          /\ ~link_immutable[a] /\ a \notin Configured /\ ~link_enabled[a]
          /\ a \in link_touched
          /\ ~link_immutable[b] /\ b \in Configured /\ link_enabled[b]
          /\ link_immutable[c] /\ c \in Configured /\ ~link_enabled[c]
====
